---- MODULE Spec2Model ----
(***************************************************************************)
(* State-machine model of the QAP-to-QUBO encoders of this repository:     *)
(*   - time_QAP (src/time_qap.py): the temporal assignment tracker          *)
(*   - QAP      (src/basic_qap.py): the stateless QUBO builder              *)
(*                                                                         *)
(* Matrices are sequences of rows (1-based in TLA+, 0-based in the code;    *)
(* the index arithmetic of the code is kept and shifted by one on access).  *)
(* Optional arguments (None or a value) are records [kind, val].            *)
(* numpy arrays handed in by the caller are records [kind, shape, data].    *)
(* The assignment arrays the tracker shares with its caller live in `heap`, *)
(* a map from object identity to contents; cur_state / prev_state hold      *)
(* identities (0 = None), as Python names hold references.                  *)
(***************************************************************************)
EXTENDS Integers, Sequences, FiniteSets, TLC

VARIABLES
    pc,               \* "new": nothing constructed; "tracker": a time_QAP; "qap": a QAP
    flow,             \* self.flow  (data of the array)
    dist,             \* self.dist
    size,             \* self.size
    time,             \* self.time  (step count)
    prev_state,       \* self.prev_state: identity of an array in heap, 0 = None
    cur_state,        \* self.cur_state:  identity of an array in heap, 0 = None
    num_closets,      \* self.num_closets (optional int)
    qubo,             \* self.qubo
    row_col_penalty,  \* self.row_col_penalty
    penalty,          \* the local `penalty` of the last generate_qubo call
    heap,             \* contents of the arrays cur_state / prev_state refer to
    held,             \* identities of the arrays returned to the caller
    nextId,           \* next fresh array identity
    mutations,        \* number of caller writes into returned arrays so far
    result            \* outcome of the last call: [op, outcome, ref, value]

vars == <<pc, flow, dist, size, time, prev_state, cur_state, num_closets, qubo,
          row_col_penalty, penalty, heap, held, nextId, mutations, result>>

fields == <<flow, dist, size, time, prev_state, cur_state, num_closets, qubo,
            row_col_penalty, penalty>>

-----------------------------------------------------------------------------
(* Bounds of the model *)

MaxTime == 2
MaxMutations == 1
MaxVal == 1

-----------------------------------------------------------------------------
(* Values *)

NoneV == [kind |-> "None", val |-> 0]
IntV(k) == [kind |-> "int", val |-> k]
FloatV == [kind |-> "float", val |-> 0]

NoRef == 0

Array(m) == [kind |-> "ndarray", shape |-> <<Len(m), Len(m[1])>>, data |-> m]

F2sym  == <<<<0, 1>>, <<1, 0>>>>
F2asym == <<<<0, 1>>, <<0, 0>>>>
F2big  == <<<<0, 9>>, <<9, 0>>>>
D2a    == <<<<0, 1>>, <<1, 0>>>>
D2b    == <<<<1, 2>>, <<2, 1>>>>
F3a    == <<<<0, 5, 2>>, <<5, 0, 3>>, <<2, 3, 0>>>>
D3a    == <<<<0, 8, 15>>, <<8, 0, 13>>, <<15, 13, 0>>>>
F3b    == <<<<0, 3, 2>>, <<3, 0, 4>>, <<2, 4, 0>>>>

\* Arguments that fail validation: not an ndarray, not square.
BadArrays ==
    { [kind |-> "list", shape |-> <<2, 2>>, data |-> F2sym],
      [kind |-> "ndarray", shape |-> <<2, 3>>, data |-> <<<<0, 1, 2>>, <<1, 0, 2>>>>] }

\* two valid 2 x 2 flows, a 3 x 3 flow (valid, but of another shape than the
\* distance matrices offered below), and the arguments that fail validation
FlowInputs == {Array(F2asym), Array(F2big), Array(F3b)} \cup BadArrays

DistInputs == {Array(D2b)} \cup BadArrays

ClosetInputs == {NoneV, FloatV} \cup {IntV(k) : k \in 0..2}

PenaltyInputs == {NoneV, IntV(100)}

-----------------------------------------------------------------------------
(* numpy helpers *)

ndim(a) == Len(a.shape)

RECURSIVE SumSeq(_)
SumSeq(s) == IF s = <<>> THEN 0 ELSE Head(s) + SumSeq(Tail(s))

RECURSIVE SumRows(_)
SumRows(Q) == IF Q = <<>> THEN 0 ELSE SumSeq(Head(Q)) + SumRows(Tail(Q))

\* np.sum(Q)
npsum(Q) == SumRows(Q)

\* the n x n array with entries f[a][b], as a sequence of n rows, each a
\* sequence of n entries
Matrix(n, f) ==
    SubSeq([a \in 1..n |-> SubSeq(f[a], 1, n)], 1, n)

\* np.kron(F, D) for N x N matrices: entry (i*N+m, j*N+n) = F[i,j] * D[m,n]
kron(F, D, N) ==
    Matrix(N * N,
           [a \in 1..(N * N) |->
               [b \in 1..(N * N) |->
                   F[((a - 1) \div N) + 1][((b - 1) \div N) + 1]
                 * D[((a - 1) % N) + 1][((b - 1) % N) + 1]]])

\* Q[a, b] += v   (a, b 0-based as in the code)
AddAt(Q, a, b, v) == [Q EXCEPT ![a + 1][b + 1] = @ + v]

\* np.argmax(row): index (0-based) of the first maximal entry
argmax(row) ==
    CHOOSE j \in 0..(Len(row) - 1) :
        /\ \A k \in 0..(Len(row) - 1) : row[k + 1] <= row[j + 1]
        /\ \A k \in 0..(j - 1) : row[k + 1] < row[j + 1]

-----------------------------------------------------------------------------
(* QUBO construction: generate_qubo of both classes *)

\* constraint_groups: N row groups [i*N+m for m], then N column groups [m+N*i for i]
constraint_groups(N) ==
    SubSeq([g \in 1..(2 * N) |->
              SubSeq([k \in 1..N |-> IF g <= N
                                     THEN (g - 1) * N + (k - 1)
                                     ELSE (g - N - 1) + N * (k - 1)], 1, N)],
           1, 2 * N)

\* PairUpdate without the mirrored update Q[var_j, var_i] += penalty
PairUpdate_nomirror(Q, var_i, var_j, i, j, P) ==
    IF i = j
    THEN AddAt(Q, var_i, var_j, -P)
    ELSE AddAt(Q, var_i, var_j, P)

\* body of the inner loop for the pair of positions (i, j), i <= j, of one group
PairUpdate(Q, var_i, var_j, i, j, P) ==
    IF i = j
    THEN AddAt(Q, var_i, var_j, -P)
    ELSE AddAt(AddAt(Q, var_i, var_j, P), var_j, var_i, P)

\* for i in range(len(group)): for j in range(i, len(group)): ...
\* (Len(Q1) is never 0; the test makes the evaluator compute Q1 before the
\* next iteration instead of nesting the updates)
RECURSIVE PenaliseGroup(_, _, _, _, _)
PenaliseGroup(Q, group, i, j, P) ==
    IF i >= Len(group) THEN Q
    ELSE IF j >= Len(group) THEN PenaliseGroup(Q, group, i + 1, i + 1, P)
    ELSE LET Q1 == PairUpdate(Q, group[i + 1], group[j + 1], i, j, P)
         IN  IF Len(Q1) = 0 THEN Q1 ELSE PenaliseGroup(Q1, group, i, j + 1, P)

\* for group in constraint_groups: ...
RECURSIVE PenaliseGroups(_, _, _)
PenaliseGroups(Q, groups, P) ==
    IF groups = <<>> THEN Q
    ELSE LET Q1 == PenaliseGroup(Q, Head(groups), 0, 0, P)
         IN  IF Len(Q1) = 0 THEN Q1 ELSE PenaliseGroups(Q1, Tail(groups), P)

\* variables i*N+m whose diagonal receives the closet/department penalty
ClosetVars(N, k) ==
    { i * N + m : i \in 0..(N - 1), m \in 0..(N - 1) } \cap
    UNION { IF i < k
            THEN { i * N + m : m \in k..(N - 1) }
            ELSE { i * N + m : m \in 0..(k - 1) } : i \in 0..(N - 1) }

\* the closet/department penalty: Q[v, v] += amount for every such variable
ClosetPenalty(Q, N, nc, amount) ==
    IF nc.kind = "None" THEN Q
    ELSE Matrix(N * N,
                [a \in 1..(N * N) |->
                    [b \in 1..(N * N) |->
                        Q[a][b] + (IF a = b /\ (a - 1) \in ClosetVars(N, nc.val)
                                   THEN amount ELSE 0)]])

\* the penalty used for the row/column groups
EffectivePenalty(pen, rcp) == IF pen.kind = "None" THEN rcp ELSE pen.val

\* time_QAP.generate_qubo(penalty): the new qubo, row_col_penalty and local penalty
generate_qubo(F, D, N, nc, pen) ==
    LET Q0  == kron(F, D, N)
        rcp == npsum(Q0)
        P   == EffectivePenalty(pen, rcp)
        Q1  == PenaliseGroups(Q0, constraint_groups(N), P)
    IN  [qubo |-> ClosetPenalty(Q1, N, nc, rcp),
         row_col_penalty |-> rcp,
         penalty |-> P]

\* QAP.generate_qubo(penalty)
QAP_generate_qubo(F, D, N, P) ==
    PenaliseGroups(kron(F, D, N), constraint_groups(N), P)

-----------------------------------------------------------------------------
(* Input validation *)

\* the checks of __init__ on flow and dist, in order; "ok" when all pass
ValidateArrays(f, d) ==
    IF f.kind # "ndarray" THEN "TypeError"
    ELSE IF d.kind # "ndarray" THEN "TypeError"
    ELSE IF ndim(f) # 2 \/ ndim(d) # 2 THEN "ValueError"
    ELSE IF f.shape[1] # f.shape[2] \/ d.shape[1] # d.shape[2] THEN "ValueError"
    ELSE IF f.shape # d.shape THEN "ValueError"
    ELSE "ok"

\* the checks of __init__ on num_closets
ValidateClosets(nc, N) ==
    IF nc.kind # "int" /\ nc.kind # "None" THEN "TypeError"
    ELSE IF nc.kind = "int" /\ nc.val >= N THEN "ValueError"
    ELSE "ok"

\* the checks of time_evolve on new_flow
ValidateNewFlow(nf, dshape) ==
    IF nf.kind # "ndarray" THEN "TypeError"
    ELSE IF ndim(nf) # 2 THEN "ValueError"
    ELSE IF nf.shape[1] # nf.shape[2] THEN "ValueError"
    ELSE IF nf.shape # dshape THEN "ValueError"
    ELSE "ok"

-----------------------------------------------------------------------------
(* The external solver *)

PermMatrices(N) ==
    { Matrix(N, [i \in 1..N |-> [m \in 1..N |-> IF p[i] = m THEN 1 ELSE 0]]) :
        p \in Permutations(1..N) }

\* what sampler.sample_qubo(...).first.sample, reshaped to (size, size), can be:
\* a permutation matrix; or the solver raises
SolverOutcomes(N) ==
    { [raised |-> FALSE, sample |-> s] :
        s \in PermMatrices(N) }
    \cup { [raised |-> TRUE, sample |-> <<>>] }

\* what the last call was and how it ended: the operation, "ok" or the
\* exception raised, the penalty argument, the array identity or matrix returned
Result(op, outcome, pen, ref, value) ==
    [op |-> op, outcome |-> outcome, pen |-> pen, ref |-> ref, value |-> value]

-----------------------------------------------------------------------------
(* time_QAP: the temporal assignment tracker *)

Init ==
    /\ pc = "new"
    /\ flow = <<>>
    /\ dist = <<>>
    /\ size = 0
    /\ time = 0
    /\ prev_state = NoRef
    /\ cur_state = NoRef
    /\ num_closets = NoneV
    /\ qubo = <<>>
    /\ row_col_penalty = 0
    /\ penalty = 0
    /\ heap = <<>>
    /\ held = {}
    /\ nextId = 1
    /\ mutations = 0
    /\ result = Result("none", "ok", NoneV, NoRef, <<>>)

\* a raised exception that leaves every field as it was
Raise(op, exc) ==
    /\ result' = Result(op, exc, NoneV, NoRef, <<>>)
    /\ UNCHANGED <<pc, fields, heap, held, nextId, mutations>>

\* time_QAP.__init__(flow, dist, num_closets, given_sampler)
Construct(f, d, nc) ==
    /\ pc = "new"
    /\ LET va == ValidateArrays(f, d) IN
       IF va # "ok" THEN Raise("__init__", va)
       ELSE LET N  == f.shape[1]
                vc == ValidateClosets(nc, N) IN
            IF vc # "ok" THEN Raise("__init__", vc)
            ELSE LET g == generate_qubo(f.data, d.data, N, nc, NoneV) IN
                 /\ pc' = "tracker"
                 /\ flow' = f.data
                 /\ dist' = d.data
                 /\ size' = N
                 /\ time' = 0
                 /\ prev_state' = NoRef
                 /\ cur_state' = NoRef
                 /\ num_closets' = nc
                 /\ qubo' = g.qubo
                 /\ row_col_penalty' = g.row_col_penalty
                 /\ penalty' = g.penalty
                 /\ result' = Result("__init__", "ok", NoneV, NoRef, <<>>)
                 /\ UNCHANGED <<heap, held, nextId, mutations>>

\* time_init without its guard
AlreadyInitialised_unchecked(cur) == FALSE

\* `self.cur_state is not None`, the guard of time_init
AlreadyInitialised(cur) == cur # NoRef

\* `self.cur_state is None`, the guard of time_evolve
NotInitialised(cur) == cur = NoRef

\* time_QAP.time_init()
time_init(out) ==
    /\ pc = "tracker"
    /\ IF AlreadyInitialised(cur_state) THEN Raise("time_init", "RuntimeError")
       ELSE IF out.raised THEN Raise("time_init", "SolverError")
       ELSE /\ cur_state' = nextId
            /\ heap' = (nextId :> out.sample)
            /\ held' = {nextId}
            /\ nextId' = nextId + 1
            /\ result' = Result("time_init", "ok", NoneV, nextId, <<>>)
            /\ UNCHANGED <<pc, flow, dist, size, time, prev_state, num_closets,
                           qubo, row_col_penalty, penalty, mutations>>

\* the base of the transition penalty: move_penalty = 10
move_penalty0 == 10

\* the loops with move_penalty reset to its base for every facility
RECURSIVE TransitionLoop_reset(_, _, _, _, _, _)
TransitionLoop_reset(Q, D, N, previous_locations, idx, mp) ==
    IF idx >= N * N THEN Q
    ELSE LET i  == idx \div N
             m  == idx % N
             fac_prev_state == previous_locations[i + 1]
             mp1 == IF m = 0 THEN move_penalty0 ELSE mp
             mp2 == mp1 * D[fac_prev_state + 1][m + 1]
         IN  TransitionLoop_reset(AddAt(Q, i * N + m, i * N + m, mp2),
                                  D, N, previous_locations, idx + 1, mp2)

\* the loops over facilities i and locations m, flattened to idx = i*N+m;
\* mp is the running move_penalty carried from one iteration to the next
RECURSIVE TransitionLoop(_, _, _, _, _, _)
TransitionLoop(Q, D, N, previous_locations, idx, mp) ==
    IF idx >= N * N THEN Q
    ELSE LET i  == idx \div N
             m  == idx % N
             fac_prev_state == previous_locations[i + 1]
             mp2 == mp * D[fac_prev_state + 1][m + 1]
         IN  TransitionLoop(AddAt(Q, i * N + m, i * N + m, mp2),
                            D, N, previous_locations, idx + 1, mp2)

\* the object prev_state is bound to: new_prev = self.cur_state
new_prev(cur) == cur

\* time_evolve without the increment of self.time
NextTime_missing(t) == t

\* self.time += 1
NextTime(t) == t + 1

\* time_QAP.time_evolve(new_flow, penalty)
time_evolve(nf, pen, out) ==
    /\ pc = "tracker"
    /\ time < MaxTime
    /\ IF NotInitialised(cur_state) THEN Raise("time_evolve", "RuntimeError")
       ELSE LET v == ValidateNewFlow(nf, <<Len(dist), Len(dist[1])>>) IN
       IF v # "ok" THEN Raise("time_evolve", v)
       ELSE LET P  == EffectivePenalty(pen, row_col_penalty)
                g  == generate_qubo(nf.data, dist, size, num_closets, IntV(P))
                pv == new_prev(cur_state)
                previous_locations ==
                    [i \in 1..size |-> argmax(heap[pv][i])]
                Q  == TransitionLoop(g.qubo, dist, size, previous_locations,
                                     0, move_penalty0)
            IN
            /\ flow' = nf.data
            /\ qubo' = Q
            /\ row_col_penalty' = g.row_col_penalty
            /\ penalty' = g.penalty
            /\ prev_state' = pv
            /\ IF out.raised
               THEN /\ result' = Result("time_evolve", "SolverError", pen, NoRef, <<>>)
                    /\ heap' = [r \in {pv, cur_state} |-> heap[r]]
                    /\ UNCHANGED <<cur_state, time, held, nextId>>
               ELSE /\ cur_state' = nextId
                    /\ heap' = [r \in {pv, nextId} |->
                                  IF r = nextId THEN out.sample ELSE heap[r]]
                    /\ held' = (held \cup {nextId}) \cap {pv, nextId}
                    /\ nextId' = nextId + 1
                    /\ time' = NextTime(time)
                    /\ result' = Result("time_evolve", "ok", pen, nextId, <<>>)
            /\ UNCHANGED <<pc, dist, size, num_closets, mutations>>

\* time_QAP.sample_qap(sampler, shots, penalty): reads self.qubo, writes nothing
sample_qap(pen, out) ==
    /\ pc = "tracker"
    /\ result' = Result("sample_qap", IF out.raised THEN "SolverError" ELSE "ok",
                        NoneV, NoRef, <<>>)
    /\ UNCHANGED <<pc, fields, heap, held, nextId, mutations>>

\* the caller writes into an array that time_init / time_evolve returned to it
CallerMutate(r, i, m) ==
    /\ pc = "tracker"
    /\ mutations < MaxMutations
    /\ r \in held \cap DOMAIN heap
    /\ heap' = [heap EXCEPT ![r][i][m] = 1 - @]
    /\ mutations' = mutations + 1
    /\ result' = Result("caller_write", "ok", NoneV, r, <<>>)
    /\ UNCHANGED <<pc, fields, held, nextId>>

Next ==
    \/ \E f \in FlowInputs, d \in DistInputs, nc \in ClosetInputs : Construct(f, d, nc)
    \/ \E out \in SolverOutcomes(size) : time_init(out)
    \/ \E nf \in FlowInputs, pen \in PenaltyInputs, out \in SolverOutcomes(size) :
          time_evolve(nf, pen, out)
    \/ \E out \in SolverOutcomes(size) : sample_qap(NoneV, out)
    \/ \E r \in held : CallerMutate(r, 1, 1)

Spec == Init /\ [][Next]_vars

-----------------------------------------------------------------------------
(* QAP: the stateless builder of src/basic_qap.py *)

RECURSIVE Rows(_, _)
Rows(n, vals) ==
    IF n = 0 THEN {<<>>}
    ELSE { <<v>> \o r : v \in vals, r \in Rows(n - 1, vals) }

\* all 2 x 2 matrices with entries in 0..MaxVal
SmallMatrices == { <<r1, r2>> : r1 \in Rows(2, 0..MaxVal), r2 \in Rows(2, 0..MaxVal) }

QAPFlowInputs == { Array(m) : m \in SmallMatrices \cup {F3a, F2big} } \cup BadArrays

QAPDistInputs == { Array(D2a), Array(D2b), Array(D3a) } \cup BadArrays

QAPPenalties == {1, 100}

\* QAP.__init__(flow, dist)
QAP_init(f, d) ==
    /\ pc = "new"
    /\ LET va == ValidateArrays(f, d) IN
       IF va # "ok" THEN Raise("QAP.__init__", va)
       ELSE /\ pc' = "qap"
            /\ flow' = f.data
            /\ dist' = d.data
            /\ size' = f.shape[1]
            /\ result' = Result("QAP.__init__", "ok", NoneV, NoRef, <<>>)
            /\ UNCHANGED <<time, prev_state, cur_state, num_closets, qubo,
                           row_col_penalty, penalty, heap, held, nextId, mutations>>

\* QAP.generate_qubo(penalty): returns Q, stores nothing
QAP_generate(P) ==
    /\ pc = "qap"
    /\ result' = Result("QAP.generate_qubo", "ok", IntV(P), NoRef,
                        QAP_generate_qubo(flow, dist, size, P))
    /\ UNCHANGED <<pc, fields, heap, held, nextId, mutations>>

\* QAP.sample_optimized(sampler, shots, penalty): builds Q and hands it to the solver
QAP_sample_optimized(P, out) ==
    /\ pc = "qap"
    /\ result' = Result("QAP.sample_optimized",
                        IF out.raised THEN "SolverError" ELSE "ok",
                        IntV(P), NoRef, QAP_generate_qubo(flow, dist, size, P))
    /\ UNCHANGED <<pc, fields, heap, held, nextId, mutations>>

NextQAP ==
    \/ \E f \in QAPFlowInputs, d \in QAPDistInputs : QAP_init(f, d)
    \/ \E P \in QAPPenalties : QAP_generate(P)
    \/ \E P \in QAPPenalties, out \in SolverOutcomes(size) : QAP_sample_optimized(P, out)

SpecQAP == Init /\ [][NextQAP]_vars

-----------------------------------------------------------------------------
(* Vocabulary of the properties *)

\* contents of the arrays the tracker's state fields refer to (<<>> for None)
PrevVal == IF prev_state = NoRef THEN <<>> ELSE heap[prev_state]
CurVal  == IF cur_state = NoRef THEN <<>> ELSE heap[cur_state]

IsTracker == pc = "tracker"

Succeeded(op) == result.op = op /\ result.outcome = "ok"

IsPermutation(M, N) ==
    /\ M # <<>>
    /\ \A i \in 1..N : \A m \in 1..N : M[i][m] \in {0, 1}
    /\ \A i \in 1..N : Cardinality({m \in 1..N : M[i][m] = 1}) = 1
    /\ \A m \in 1..N : Cardinality({i \in 1..N : M[i][m] = 1}) = 1

IsSymmetric(Q) ==
    \A a \in 1..Len(Q) : \A b \in 1..Len(Q) : Q[a][b] = Q[b][a]

HasShape(Q, n) == Len(Q) = n /\ \A a \in 1..n : Len(Q[a]) = n

\* facility and location of variable a (1-based a, 0-based facility / location)
Fac(a, N) == (a - 1) \div N
Loc(a, N) == (a - 1) % N

\* two distinct variables in one row group (same facility) or column group
SameGroup(a, b, N) ==
    a # b /\ (Fac(a, N) = Fac(b, N) \/ Loc(a, N) = Loc(b, N))

\* the largest entry of flow (x) dist, from the entries of the two matrices
MaxKronEntry(F, D, N) ==
    CHOOSE x \in { F[i][j] * D[m][n] : i \in 1..N, j \in 1..N, m \in 1..N, n \in 1..N } :
        \A i \in 1..N, j \in 1..N, m \in 1..N, n \in 1..N : F[i][j] * D[m][n] <= x

-----------------------------------------------------------------------------
(* C1: lifecycle state machine *)

\* C1: time_evolve called while cur_state is unset always raises the state
\* error, time_init called while cur_state is set always raises the state
\* error; cur_state leaves None only by a successful time_init, never returns
\* to None, and time_evolve never raises the state error once initialised.
C1_Lifecycle ==
    [][ /\ (result'.op = "time_evolve" /\ cur_state = NoRef)
            => result'.outcome = "RuntimeError"
        /\ (result'.op = "time_init" /\ cur_state # NoRef)
            => result'.outcome = "RuntimeError"
        /\ (cur_state = NoRef /\ cur_state' # NoRef)
            => (result'.op = "time_init" /\ result'.outcome = "ok")
        /\ (cur_state # NoRef) => (cur_state' # NoRef)
        /\ (result'.op = "time_evolve" /\ cur_state # NoRef)
            => result'.outcome # "RuntimeError"
      ]_vars

\* a second time_init, after an evolution step, was refused
C1_Witness ==
    /\ IsTracker
    /\ time >= 1
    /\ result.op = "time_init"
    /\ result.outcome = "RuntimeError"

-----------------------------------------------------------------------------
(* C2: failed calls leave the tracker as it was *)

\* C2: whenever time_init or time_evolve raises (state error, validation
\* error, or an exception of the solver), flow, qubo, row_col_penalty,
\* prev_state, cur_state and time have the values they had before the call.
C2_FailedCallChangesNothing ==
    [][ (result'.op \in {"time_init", "time_evolve"} /\ result'.outcome # "ok")
          => /\ flow' = flow
             /\ qubo' = qubo
             /\ row_col_penalty' = row_col_penalty
             /\ PrevVal' = PrevVal
             /\ CurVal' = CurVal
             /\ time' = time
      ]_vars

-----------------------------------------------------------------------------
(* C3: prev_state is an independent snapshot *)

\* C3: a successful time_evolve leaves in prev_state the value cur_state had
\* before the call; no write of the caller into an array it was handed
\* changes the stored prev_state; time_init and sample_qap leave it unchanged.
C3_PrevIsSnapshot ==
    [][ /\ (result'.op = "time_evolve" /\ result'.outcome = "ok")
            => PrevVal' = CurVal
        /\ (result'.op = "caller_write") => PrevVal' = PrevVal
        /\ (result'.op \in {"time_init", "sample_qap"}) => PrevVal' = PrevVal
      ]_vars

-----------------------------------------------------------------------------
(* C4: the stored qubo is N^2 x N^2 and symmetric *)

\* C4: in every state of a constructed tracker the qubo has shape
\* N^2 x N^2 and is symmetric, whatever valid flow it was built from.
C4_QuboSymmetric ==
    IsTracker => (HasShape(qubo, size * size) /\ IsSymmetric(qubo))

-----------------------------------------------------------------------------
(* C5: big-M soundness of the row/column penalty *)

\* C5: after construction and after every time_evolve called without a
\* penalty override, the penalty applied to the row/column groups of the
\* current qubo is strictly greater than the largest entry of
\* kron(flow, dist) for the current flow.
C5_BigM ==
    (Succeeded("__init__") \/ (Succeeded("time_evolve") /\ result.pen = NoneV))
        => penalty > MaxKronEntry(flow, dist, size)

-----------------------------------------------------------------------------
(* C6: what the builder adds to the Kronecker product *)

\* the difference between the matrix QAP.generate_qubo returned and
\* kron(flow, dist), at entry (a, b)
BuilderDelta(a, b) == result.value[a][b] - kron(flow, dist, size)[a][b]

\* C6 as stated: with explicit penalty P and no group cut, every diagonal
\* entry is reduced by exactly P, every off-diagonal entry of two variables
\* sharing a row or column group is increased by exactly P, every other
\* entry is unchanged.
C6_AsStated ==
    Succeeded("QAP.generate_qubo") =>
        \A a \in 1..(size * size) : \A b \in 1..(size * size) :
            BuilderDelta(a, b) =
                IF a = b THEN -result.pen.val
                ELSE IF SameGroup(a, b, size) THEN result.pen.val
                ELSE 0

\* C6 amended: every diagonal entry is reduced by exactly 2P (once for the
\* row group and once for the column group of its variable), every
\* off-diagonal entry of two variables sharing a row or column group is
\* increased by exactly P, every other entry is unchanged.
C6_BuilderDelta ==
    Succeeded("QAP.generate_qubo") =>
        \A a \in 1..(size * size) : \A b \in 1..(size * size) :
            BuilderDelta(a, b) =
                IF a = b THEN -2 * result.pen.val
                ELSE IF SameGroup(a, b, size) THEN result.pen.val
                ELSE 0

\* the 3 x 3 scenario: flow F3a, dist D3a, penalty 100
C6_Witness ==
    /\ Succeeded("QAP.generate_qubo")
    /\ flow = F3a
    /\ dist = D3a
    /\ result.pen.val = 100
    /\ result.value[1][1] = -200
    /\ result.value[1][2] = 100
    /\ result.value[1][5] = 40

-----------------------------------------------------------------------------
(* C7: validation of num_closets *)

\* C7: no tracker exists whose num_closets is given and is not an integer
\* k with 0 < k < N.
C7_ClosetsInRange ==
    (IsTracker /\ num_closets # NoneV)
        => (num_closets.kind = "int" /\ 0 < num_closets.val /\ num_closets.val < size)

-----------------------------------------------------------------------------
(* C8: the closet/department (group cut) penalty *)

\* facility i and location m lie on opposite sides of the cut k
Opposite(i, m, k) == (i < k /\ k <= m) \/ (m < k /\ k <= i)

\* the qubo the same call would have stored without a group cut
QuboWithoutCut ==
    LET Q == generate_qubo(flow, dist, size, NoneV, IntV(penalty)).qubo
    IN  IF result.op = "__init__" THEN Q
        ELSE TransitionLoop(Q, dist, size,
                            [i \in 1..size |-> argmax(PrevVal[i])], 0, move_penalty0)

\* C8: right after construction or time_evolve of a tracker with cut k, the
\* diagonal entry of variable i*N+m exceeds the entry built without a cut by
\* exactly the penalty applied to the row/column groups when i and m lie on
\* opposite sides of the cut, and by 0 otherwise; off-diagonal entries are
\* the same.
C8_CutPenalty ==
    ((Succeeded("__init__") \/ Succeeded("time_evolve")) /\ num_closets.kind = "int")
        => \A a \in 1..(size * size) : \A b \in 1..(size * size) :
              qubo[a][b] - QuboWithoutCut[a][b] =
                  IF a = b /\ Opposite(Fac(a, size), Loc(a, size), num_closets.val)
                  THEN penalty ELSE 0

-----------------------------------------------------------------------------
(* C9: the transition penalty *)

\* prev(i): the column of the 1 in row i (0-based) of prev_state
PrevCol(i) == CHOOSE m \in 0..(size - 1) : PrevVal[i + 1][m + 1] = 1

\* product of dist[prev(i'), m'] over the pairs (i', m') with i'*N+m' <= idx
RECURSIVE DistProduct(_)
DistProduct(idx) ==
    IF idx < 0 THEN 1
    ELSE dist[PrevCol(idx \div size) + 1][(idx % size) + 1] * DistProduct(idx - 1)

\* the qubo generate_qubo rebuilt in the last time_evolve, before the
\* transition penalties were added
RebuiltQubo == generate_qubo(flow, dist, size, num_closets, IntV(penalty)).qubo

\* C9: after the transition-penalty loop of time_evolve, with prev_state a
\* permutation matrix, the diagonal entry of variable i*N+m is the rebuilt
\* entry plus 10 times the product of dist[prev(i'), m'] over all pairs up
\* to and including (i, m) in row-major order, and off-diagonal entries are
\* those of the rebuilt qubo.
C9_TransitionPenalty ==
    (/\ result.op = "time_evolve"
     /\ result.outcome \in {"ok", "SolverError"}
     /\ IsPermutation(PrevVal, size))
        => \A a \in 1..(size * size) : \A b \in 1..(size * size) :
              qubo[a][b] - RebuiltQubo[a][b] =
                  IF a = b THEN 10 * DistProduct(a - 1) ELSE 0

\* a second evolution step whose last variable carries the full product
C9_Witness ==
    /\ Succeeded("time_evolve")
    /\ time = 2
    /\ IsPermutation(PrevVal, size)
    /\ qubo[size * size][size * size] - RebuiltQubo[size * size][size * size] = 40

-----------------------------------------------------------------------------
(* C10: the step counter *)

\* C10: time is 0 after construction, a successful time_evolve increases it
\* by exactly 1, and every other call (time_init, sample_qap, failed calls)
\* leaves it unchanged.
C10_StepCount ==
    [][ /\ (result'.op = "__init__" /\ result'.outcome = "ok") => time' = 0
        /\ (result'.op = "time_evolve" /\ result'.outcome = "ok") => time' = time + 1
        /\ ~(result'.op = "time_evolve" /\ result'.outcome = "ok") => time' = time
      ]_vars

\* two successful evolution steps, with failed calls in between or not
C10_Witness ==
    /\ Succeeded("time_evolve")
    /\ time = 2

====
